---- MODULE Spec2Model ----
(***************************************************************************)
(* The API-documentation synthesizer of blog-ts-v2:                        *)
(*   server/scripts/generate-openapi.ts   (CLI, route parser)              *)
(*   server/scripts/lib/openapi-generator.ts  (OpenAPI synthesis)          *)
(*                                                                         *)
(* Text is modelled at lexeme level: a string is a sequence of tokens, a   *)
(* token being a run of characters that none of the program's patterns     *)
(* can split ("router", ".", "get", "(", "'", "/", "authenticate", ...).   *)
(* Every substring test and every regular expression of the source is     *)
(* translated to the same test on token sequences.  A file is a sequence   *)
(* of lines, a line a sequence of tokens.                                  *)
(*                                                                         *)
(* The Chinese words the source matches or emits are tokens written with   *)
(* an ASCII gloss:                                                         *)
(*   "zh-query" 查询        "zh-param" 参数      "zh-path" 路径            *)
(*   "zh-optional" 可选     "zh-must" 必须       "zh-needed" 必需          *)
(*   "zh-default" 默认      "zh-enum" 枚举       "zh-route-prefix" 路由前缀 *)
(*   "zh-no-description" 无描述   "zh-no-summary" 无摘要                   *)
(*   "zh-anonymous-function" 匿名函数   "zh-required-roles" **所需角色:**  *)
(*   "zh-user" 用户  "zh-post" 文章  "zh-category" 分类  "zh-tag" 标签      *)
(*   "zh-other" 其他  "zh-system" 系统  "zh-related-ops" 相关操作           *)
(*   "U+FF1A" full-width colon   "U+FF0C" full-width comma                 *)
(***************************************************************************)
EXTENDS Integers, Sequences, FiniteSets, TLC

(***************************************************************************)
(* String primitives (String.prototype.* of the source, on token          *)
(* sequences).                                                             *)
(***************************************************************************)
Space == {" ", "\n"}

Quotes == {"'", "\""}

MinOf(S) == CHOOSE k \in S : \A j \in S : k <= j

Drop(s, n) == SubSeq(s, n + 1, Len(s))

MatchAt(s, p, k) == k >= 1 /\ k + Len(p) - 1 <= Len(s) /\ SubSeq(s, k, k + Len(p) - 1) = p

StartsWith(s, p) == MatchAt(s, p, 1)

EndsWith(s, p) == Len(p) <= Len(s) /\ MatchAt(s, p, Len(s) - Len(p) + 1)

Occurrences(s, p) == {k \in 1..Len(s) : MatchAt(s, p, k)}

Includes(s, p) == Occurrences(s, p) # {}

\* length of the longest run of tokens of S that starts at position k
RunIn(s, k, S) ==
  IF k > Len(s) THEN 0
  ELSE LET stop == {j \in k..Len(s) : s[j] \notin S}
       IN IF stop = {} THEN Len(s) - k + 1 ELSE MinOf(stop) - k

\* length of the longest run of tokens outside S that starts at position k
RunNot(s, k, S) ==
  IF k > Len(s) THEN 0
  ELSE LET stop == {j \in k..Len(s) : s[j] \in S}
       IN IF stop = {} THEN Len(s) - k + 1 ELSE MinOf(stop) - k

Trim(s) ==
  LET a == RunIn(s, 1, Space)
      rest == Drop(s, a)
      keep == {j \in 1..Len(rest) : rest[j] \notin Space}
  IN IF keep = {} THEN <<>> ELSE SubSeq(rest, 1, CHOOSE j \in keep : \A m \in keep : m <= j)

\* s.replace(p, '') : the first occurrence of p is removed
ReplaceFirst(s, p) ==
  IF ~Includes(s, p) THEN s
  ELSE LET k == MinOf(Occurrences(s, p))
       IN SubSeq(s, 1, k - 1) \o Drop(s, k + Len(p) - 1)

RECURSIVE JoinNL(_)
\* lines.join('\n')
JoinNL(ls) ==
  IF ls = <<>> THEN <<>>
  ELSE IF Len(ls) = 1 THEN ls[1]
  ELSE ls[1] \o <<"\n">> \o JoinNL(Tail(ls))

RECURSIVE SplitOn(_, _)
\* s.split(sep) for a one-token separator
SplitOn(s, sep) ==
  LET at == {j \in 1..Len(s) : s[j] = sep}
  IN IF at = {} THEN <<s>>
     ELSE <<SubSeq(s, 1, MinOf(at) - 1)>> \o SplitOn(Drop(s, MinOf(at)), sep)

RECURSIVE Dedup(_)
\* [...new Set(xs)] : first occurrences, in order
Dedup(xs) ==
  IF xs = <<>> THEN <<>>
  ELSE LET d == Dedup(SubSeq(xs, 1, Len(xs) - 1))
           x == xs[Len(xs)]
       IN IF \E j \in 1..Len(d) : d[j] = x THEN d ELSE Append(d, x)

Absent == <<>>

(***************************************************************************)
(* Token classes.  WordToks are the tokens made of \w characters only.     *)
(***************************************************************************)
Verbs == {"get", "post", "put", "patch", "delete"}

VerbUpper == [v \in Verbs |->
  CASE v = "get" -> "GET" [] v = "post" -> "POST" [] v = "put" -> "PUT"
    [] v = "patch" -> "PATCH" [] v = "delete" -> "DELETE"]

VerbLower == [m \in {"GET", "POST", "PUT", "PATCH", "DELETE"} |->
  CASE m = "GET" -> "get" [] m = "POST" -> "post" [] m = "PUT" -> "put"
    [] m = "PATCH" -> "patch" [] m = "DELETE" -> "delete"]

WordToks == Verbs \cup {"router", "use", "wid", "bind", "ctrl", "h", "req", "res", "next",
  "authenticate", "optional", "Authenticate", "authorize", "import", "from",
  "ADMIN", "EDITOR", "USER", "all", "batch", "id", "slug", "me", "x", "query", "page",
  "path", "string", "number", "param", "returns", "response", "requestBody",
  "Tag", "Post", "User", "CreateTagDto", "tags", "api", "v1"}

\* ":" and the full-width colon U+FF1A
Colons == {":", "U+FF1A"}

(***************************************************************************)
(* route-parser: helpers of parseRouteLine                                 *)
(***************************************************************************)
\* rolesStr.split(/\s*,\s*/).map(role => role.trim())
SplitRoles(str) ==
  LET parts == SplitOn(str, ",")
  IN [n \in 1..Len(parts) |-> Trim(parts[n])]

\* /authorize\(['"]([^'"]+)['"]\)/ tried at position k: the captured group, or Absent
SingleAuthorizeAt(s, k) ==
  LET n == RunNot(s, k + 3, Quotes)
      c == k + 3 + n
  IN IF /\ MatchAt(s, <<"authorize", "(">>, k)
        /\ k + 2 <= Len(s) /\ s[k + 2] \in Quotes
        /\ n >= 1
        /\ c + 1 <= Len(s) /\ s[c] \in Quotes /\ s[c + 1] = ")"
     THEN SubSeq(s, k + 3, c - 1)
     ELSE Absent

RECURSIVE MoreArgs(_, _, _)
\* (?:,\s*['"]([^'"]+)['"])* from position k, greedy: the position after the
\* last repetition and the capture of the last repetition (JavaScript keeps
\* only the last iteration's capture of a repeated group)
MoreArgs(s, k, last) ==
  LET q == k + 1 + RunIn(s, k + 1, Space)
      n == RunNot(s, q + 1, Quotes)
      c == q + 1 + n
  IN IF /\ k <= Len(s) /\ s[k] = ","
        /\ q <= Len(s) /\ s[q] \in Quotes
        /\ n >= 1
        /\ c <= Len(s) /\ s[c] \in Quotes
     THEN MoreArgs(s, c + 1, SubSeq(s, q + 1, c - 1))
     ELSE [end |-> k, last |-> last]

\* /authorize\(['"]([^'"]+)['"](?:,\s*['"]([^'"]+)['"])*\)/ tried at position k:
\* <<group 1, group 2>>, or <<>> when there is no match at k
MultiAuthorizeAt(s, k) ==
  LET n == RunNot(s, k + 3, Quotes)
      c == k + 3 + n
      more == MoreArgs(s, c + 1, Absent)
  IN IF /\ MatchAt(s, <<"authorize", "(">>, k)
        /\ k + 2 <= Len(s) /\ s[k + 2] \in Quotes
        /\ n >= 1
        /\ c <= Len(s) /\ s[c] \in Quotes
        /\ more.end <= Len(s) /\ s[more.end] = ")"
     THEN <<SubSeq(s, k + 3, c - 1), more.last>>
     ELSE <<>>

extractRequiredRoles(line) ==
  LET singles == {k \in 1..Len(line) : SingleAuthorizeAt(line, k) # Absent}
      first == IF singles = {} THEN <<>>
               ELSE SplitRoles(SingleAuthorizeAt(line, MinOf(singles)))
      multis == {k \in 1..Len(line) : MultiAuthorizeAt(line, k) # <<>>}
      groups == IF multis = {} THEN <<>> ELSE MultiAuthorizeAt(line, MinOf(multis))
      g1 == IF groups = <<>> THEN <<>> ELSE SplitRoles(groups[1])
      g2 == IF groups = <<>> \/ groups[2] = Absent THEN <<>> ELSE SplitRoles(groups[2])
  IN Dedup(first \o g1 \o g2)

extractHandlerName(line) ==
  LET binds == {k \in 1..Len(line) :
                  /\ MatchAt(line, <<".", "bind", "(">>, k)
                  /\ RunIn(line, k + 3, WordToks) >= 1
                  /\ k + 3 + RunIn(line, k + 3, WordToks) <= Len(line)
                  /\ line[k + 3 + RunIn(line, k + 3, WordToks)] = ")"}
      direct == {k \in 1..Len(line) :
                  /\ MatchAt(line, <<"(", "req", ",">>, k)
                  /\ MatchAt(line, <<"res">>, k + 3 + RunIn(line, k + 3, Space))}
  IN IF binds # {}
     THEN LET k == MinOf(binds) IN SubSeq(line, k + 3, k + 2 + RunIn(line, k + 3, WordToks))
     ELSE IF direct # {} THEN <<"zh-anonymous-function">> ELSE Absent

\* /zh-default[U+FF1A:]\s*([^\s,U+FF0C]+)/
extractDefaultValue(description) ==
  LET at == {k \in 1..Len(description) :
               /\ description[k] = "zh-default"
               /\ k + 1 <= Len(description) /\ description[k + 1] \in Colons
               /\ RunNot(description, k + 2 + RunIn(description, k + 2, Space),
                         Space \cup {",", "U+FF0C"}) >= 1}
  IN IF at = {} THEN Absent
     ELSE LET k == MinOf(at)
              b == k + 2 + RunIn(description, k + 2, Space)
          IN SubSeq(description, b, b + RunNot(description, b, Space \cup {",", "U+FF0C"}) - 1)

\* /zh-enum[U+FF1A:]\s*\[([^\]]+)\]/ , then split(/\s*,\s*/).map(trim)
extractEnumValues(description) ==
  LET Ok(k) == LET b == k + 2 + RunIn(description, k + 2, Space)
                   n == RunNot(description, b + 1, {"]"})
               IN /\ description[k] = "zh-enum"
                  /\ k + 1 <= Len(description) /\ description[k + 1] \in Colons
                  /\ b <= Len(description) /\ description[b] = "["
                  /\ n >= 1 /\ b + 1 + n <= Len(description)
      at == {k \in 1..Len(description) : Ok(k)}
  IN IF at = {} THEN Absent
     ELSE LET k == MinOf(at)
              b == k + 2 + RunIn(description, k + 2, Space)
          IN SplitRoles(SubSeq(description, b + 1, b + RunNot(description, b + 1, {"]"})))

(***************************************************************************)
(* route-parser: parseComment.  A comment is the list of its lines          *)
(* (comment.split('\n')); the empty string is the empty list.              *)
(***************************************************************************)
\* /@param\s+\{([^}]+)\}\s+(\w+)\s+(.+)/ tried at position k, where
\* b is the position of '{', c of '}', d..e-1 of the name, f of the free text
ParamGroups(s, k, b, c, d, e, f) ==
  [ok |-> /\ MatchAt(s, <<"@", "param">>, k)
          /\ b > k + 2 /\ b <= Len(s) /\ s[b] = "{"
          /\ c > b + 1 /\ c <= Len(s) /\ s[c] = "}"
          /\ d > c + 1 /\ e > d /\ f > e /\ f <= Len(s),
   type |-> SubSeq(s, b + 1, c - 1),
   name |-> SubSeq(s, d, e - 1),
   desc |-> SubSeq(s, f, Len(s))]

ParamFromName(s, k, b, c, d, e) == ParamGroups(s, k, b, c, d, e, e + RunIn(s, e, Space))

ParamFromType(s, k, b, c, d) == ParamFromName(s, k, b, c, d, d + RunIn(s, d, WordToks))

ParamFromBrace(s, k, b, c) == ParamFromType(s, k, b, c, c + 1 + RunIn(s, c + 1, Space))

ParamFromTag(s, k, b) == ParamFromBrace(s, k, b, b + 1 + RunNot(s, b + 1, {"}"}))

ParamAt(s, k) == ParamFromTag(s, k, k + 2 + RunIn(s, k + 2, Space))

\* the first '{' ... '}' group with a non-empty body at or after position from
BraceGroupFrom(s, from) ==
  LET at == {k \in from..Len(s) :
               /\ s[k] = "{"
               /\ RunNot(s, k + 1, {"}"}) >= 1
               /\ k + 1 + RunNot(s, k + 1, {"}"}) <= Len(s)}
  IN IF at = {} THEN Absent
     ELSE SubSeq(s, MinOf(at) + 1, MinOf(at) + RunNot(s, MinOf(at) + 1, {"}"}))

\* /@requestBody\s+\{([^}]+)\}/
RequestBodyMatch(s) ==
  LET Body(k) == LET b == k + 2 + RunIn(s, k + 2, Space)
                 IN IF b > k + 2 /\ b <= Len(s) /\ s[b] = "{"
                       /\ RunNot(s, b + 1, {"}"}) >= 1
                       /\ b + 1 + RunNot(s, b + 1, {"}"}) <= Len(s)
                    THEN SubSeq(s, b + 1, b + RunNot(s, b + 1, {"}"}))
                    ELSE Absent
      at == {k \in Occurrences(s, <<"@", "requestBody">>) : Body(k) # Absent}
  IN IF at = {} THEN Absent ELSE Body(MinOf(at))

EmptyComment ==
  [descriptionLines |-> <<>>, summaryLines |-> <<>>, queryParams |-> <<>>,
   pathParams |-> <<>>, requestBodyType |-> Absent, responseType |-> Absent,
   inDescription |-> FALSE]

\* if (trimmed.startsWith('* ') && !trimmed.includes('@')) { ... }
WithDescription(acc, trimmed) ==
  IF StartsWith(trimmed, <<"*", " ">>) /\ ~Includes(trimmed, <<"@">>)
  THEN [acc EXCEPT !.descriptionLines = Append(@, Drop(trimmed, 2)),
                   !.summaryLines = IF acc.inDescription THEN @ ELSE Append(@, Drop(trimmed, 2)),
                   !.inDescription = TRUE]
  ELSE acc

\* QueryParamOf with required decided by the optional marker alone
QueryParamOf_OptionalOnly(name, type, desc) ==
  [name |-> ReplaceFirst(ReplaceFirst(name, <<"query", ".">>), <<"params", ".">>),
   type |-> type,
   description |-> desc,
   required |-> ~Includes(desc, <<"zh-optional">>),
   defaultValue |-> extractDefaultValue(desc),
   enum |-> extractEnumValues(desc)]

QueryParamOf(name, type, desc) ==
  [name |-> ReplaceFirst(ReplaceFirst(name, <<"query", ".">>), <<"params", ".">>),
   type |-> type,
   description |-> desc,
   required |-> \/ Includes(desc, <<"zh-must">>)
                \/ Includes(desc, <<"zh-needed">>)
                \/ ~Includes(desc, <<"zh-optional">>),
   defaultValue |-> extractDefaultValue(desc),
   enum |-> extractEnumValues(desc)]

PathParamOf(name, type, desc) ==
  [name |-> ReplaceFirst(ReplaceFirst(name, <<"path", ".">>), <<"params", ".">>),
   type |-> type,
   description |-> desc]

\* const [, type, name, desc] = paramMatch; the query / path classification
AddParam(acc, name, type, desc) ==
  IF \/ Includes(name, <<"query">>)
     \/ Includes(desc, <<"zh-query">>)
     \/ Includes(desc, <<"zh-param">>)
  THEN [acc EXCEPT !.queryParams = Append(@, QueryParamOf(name, type, desc))]
  ELSE IF Includes(name, <<"path">>) \/ Includes(desc, <<"zh-path">>)
  THEN [acc EXCEPT !.pathParams = Append(@, PathParamOf(name, type, desc))]
  ELSE acc

AddParamMatch(acc, pm) == AddParam(acc, pm.name, pm.type, pm.desc)

\* if (trimmed.includes('@param')) { ... }
WithParam(acc, trimmed, pms) ==
  IF Includes(trimmed, <<"@", "param">>) /\ pms # {}
  THEN AddParamMatch(acc, ParamAt(trimmed, MinOf(pms)))
  ELSE acc

\* if (trimmed.includes('@requestBody')) { ... }
WithRequestBody(acc, trimmed, body) ==
  IF Includes(trimmed, <<"@", "requestBody">>) /\ body # Absent
  THEN [acc EXCEPT !.requestBodyType = body]
  ELSE acc

\* if (trimmed.includes('@returns') || trimmed.includes('@response')) { ... }
WithResponse(acc, trimmed, group) ==
  IF /\ Includes(trimmed, <<"@", "returns">>) \/ Includes(trimmed, <<"@", "response">>)
     /\ group # Absent
  THEN [acc EXCEPT !.responseType = group]
  ELSE acc

CommentLineTrimmed(acc, trimmed) ==
  IF \/ trimmed = <<"/**">>
     \/ trimmed = <<"*/">>
     \/ StartsWith(trimmed, <<"*", " ", "@">>)
  THEN acc
  ELSE WithResponse(
         WithRequestBody(
           WithParam(WithDescription(acc, trimmed), trimmed,
                     {k \in 1..Len(trimmed) : ParamAt(trimmed, k).ok}),
           trimmed, RequestBodyMatch(trimmed)),
         trimmed, BraceGroupFrom(trimmed, 1))

\* one iteration of "for (const line of lines)" of parseComment
CommentLine(acc, line) == CommentLineTrimmed(acc, Trim(line))

RECURSIVE CommentLines(_, _)
CommentLines(acc, lines) ==
  IF lines = <<>> THEN acc ELSE CommentLines(CommentLine(acc, lines[1]), Tail(lines))

\* the return statements of parseComment
CommentResult(acc) ==
  [description |-> JoinNL(acc.descriptionLines),
   summary |-> IF acc.summaryLines = <<>> THEN <<>> ELSE acc.summaryLines[1],
   queryParams |-> acc.queryParams,
   pathParams |-> acc.pathParams,
   requestBodyType |-> acc.requestBodyType,
   responseType |-> acc.responseType]

parseComment(comment) ==
  CommentResult(IF comment = <<>> THEN EmptyComment ELSE CommentLines(EmptyComment, comment))

(***************************************************************************)
(* route-parser: parseRouteLine                                            *)
(***************************************************************************)
\* /router\.(get|post|put|patch|delete)\(/
MethodMatches(line) ==
  {k \in 1..Len(line) :
     /\ MatchAt(line, <<"router", ".">>, k)
     /\ k + 3 <= Len(line) /\ line[k + 2] \in Verbs /\ line[k + 3] = "("}

\* /\('([^']+)'/
PathMatches(line) ==
  {k \in 1..Len(line) :
     /\ MatchAt(line, <<"(", "'">>, k)
     /\ RunNot(line, k + 2, {"'"}) >= 1
     /\ k + 2 + RunNot(line, k + 2, {"'"}) <= Len(line)}

\* the Route of a line, or Null
Null == [null |-> TRUE]

\* RouteRecord without the placeholder texts
RouteRecord_NoPlaceholder(line, comment, prefix, tags, method, path, c) ==
  [path |-> IF StartsWith(path, <<"/">>) THEN path ELSE <<"/">> \o path,
   method |-> method,
   description |-> c.description,
   summary |-> c.summary,
   requiresAuth |-> Includes(line, <<"authenticate">>),
   requiredRoles |-> extractRequiredRoles(line),
   requestBodyType |-> c.requestBodyType,
   responseType |-> c.responseType,
   queryParams |-> c.queryParams,
   pathParams |-> c.pathParams,
   rawComment |-> comment,
   handler |-> extractHandlerName(line),
   prefix |-> prefix,
   tags |-> tags]

\* the record parseRouteLine returns, c being parseComment(comment)
RouteRecord(line, comment, prefix, tags, method, path, c) ==
  [path |-> IF StartsWith(path, <<"/">>) THEN path ELSE <<"/">> \o path,
   method |-> method,
   description |-> IF c.description # <<>> THEN c.description ELSE <<"zh-no-description">>,
   summary |-> IF c.summary # <<>> THEN c.summary
               ELSE IF SplitOn(c.description, "\n")[1] # <<>> THEN SplitOn(c.description, "\n")[1]
               ELSE <<"zh-no-summary">>,
   requiresAuth |-> Includes(line, <<"authenticate">>),
   requiredRoles |-> extractRequiredRoles(line),
   requestBodyType |-> c.requestBodyType,
   responseType |-> c.responseType,
   queryParams |-> c.queryParams,
   pathParams |-> c.pathParams,
   rawComment |-> comment,
   handler |-> extractHandlerName(line),
   prefix |-> prefix,
   tags |-> tags]

\* the text captured by pathMatch, which matched at position pk
PathLiteral(line, pk) == SubSeq(line, pk + 2, pk + 1 + RunNot(line, pk + 2, {"'"}))

parseRouteLine(line, comment, prefix, tags) ==
  IF MethodMatches(line) = {} THEN Null
  ELSE IF PathMatches(line) = {} THEN Null
  ELSE RouteRecord(line, comment, prefix, tags,
                   VerbUpper[line[MinOf(MethodMatches(line)) + 2]],
                   PathLiteral(line, MinOf(PathMatches(line))),
                   parseComment(comment))

(***************************************************************************)
(* route-parser: extractRoutePrefix, extractTagsFromFileName               *)
(***************************************************************************)
\* /zh-route-prefix[U+FF1A:]\s*([^\s\n]+)/ over the whole content
extractRoutePrefix(content) ==
  LET Start(k) == k + 2 + RunIn(content, k + 2, Space)
      at == {k \in 1..Len(content) :
               /\ content[k] = "zh-route-prefix"
               /\ k + 1 <= Len(content) /\ content[k + 1] \in Colons
               /\ RunNot(content, Start(k), Space) >= 1}
  IN IF at = {} THEN <<"/", "api", "/", "v1">>
     ELSE SubSeq(content, Start(MinOf(at)),
                 Start(MinOf(at)) + RunNot(content, Start(MinOf(at)), Space) - 1)

extractTagsFromFileName(fileName) ==
  IF Includes(fileName, <<"user">>) THEN <<"zh-user">>
  ELSE IF Includes(fileName, <<"post">>) THEN <<"zh-post">>
  ELSE IF Includes(fileName, <<"category">>) THEN <<"zh-category">>
  ELSE IF Includes(fileName, <<"tag">>) THEN <<"zh-tag">>
  ELSE <<"zh-other">>

(***************************************************************************)
(* openapi-generator                                                       *)
(***************************************************************************)
Methods == {"GET", "POST", "PUT", "PATCH", "DELETE"}

\* the token with its first character in upper case
CapTok(t) ==
  CASE t = "all" -> "All" [] t = "batch" -> "Batch" [] t = "id" -> "Id"
    [] t = "slug" -> "Slug" [] t = "me" -> "Me" [] t = "x" -> "X"
    [] t = "authenticate" -> "Authenticate" [] t = "tags" -> "Tags"
    [] t = "api" -> "Api" [] t = "v1" -> "V1"
    [] OTHER -> t

\* s.charAt(0).toUpperCase() + s.slice(1)
UpperFirst(s) == IF s = <<>> THEN s ELSE <<CapTok(s[1])>> \o Tail(s)

\* the token in lower case
LowTok(t) ==
  CASE t = "userId" -> "userid" [] t = "Id" -> "id" [] OTHER -> t

\* s.charAt(0).toUpperCase() + s.slice(1).toLowerCase()
UpperFirstLowerRest(s) ==
  IF s = <<>> THEN s
  ELSE <<CapTok(LowTok(s[1]))>> \o [n \in 1..(Len(s) - 1) |-> LowTok(s[n + 1])]

RECURSIVE JoinSep(_, _)
\* xs.join(sep)
JoinSep(xs, sep) ==
  IF xs = <<>> THEN <<>>
  ELSE IF Len(xs) = 1 THEN xs[1]
  ELSE xs[1] \o sep \o JoinSep(Tail(xs), sep)

mapTypeToOpenAPI(typescriptType) ==
  CASE typescriptType = <<"string">> -> "string"
    [] typescriptType = <<"number">> -> "number"
    [] typescriptType = <<"integer">> -> "integer"
    [] typescriptType = <<"boolean">> -> "boolean"
    [] typescriptType = <<"Date">> -> "string"
    [] typescriptType \in {<<"string", "[", "]">>, <<"number", "[", "]">>, <<"boolean", "[", "]">>} -> "array"
    [] OTHER -> "string"

RECURSIVE groupRoutesByTag_FirstTag(_)
\* grouping by route.tags[0] only
groupRoutesByTag_FirstTag(routes) ==
  IF routes = <<>> THEN <<>>
  ELSE LET before == groupRoutesByTag_FirstTag(SubSeq(routes, 1, Len(routes) - 1))
           tags == routes[Len(routes)].tags
       IN Dedup(before \o SubSeq(tags, 1, IF Len(tags) > 0 THEN 1 ELSE 0))

\* Object.keys(groupRoutesByTag(routes)) : the tags in first-seen order
RECURSIVE groupRoutesByTag(_)
groupRoutesByTag(routes) ==
  IF routes = <<>> THEN <<>>
  ELSE LET before == groupRoutesByTag(SubSeq(routes, 1, Len(routes) - 1))
       IN Dedup(before \o routes[Len(routes)].tags)

tagDescriptions == {"zh-user", "zh-post", "zh-system", "zh-category", "zh-tag"}

generateTags(routesByTag) ==
  [n \in 1..Len(routesByTag) |->
     [name |-> routesByTag[n],
      description |-> IF routesByTag[n] \in tagDescriptions
                      THEN <<"description of", routesByTag[n]>>
                      ELSE <<routesByTag[n], "zh-related-ops">>]]

generateOperationId(route) ==
  LET pathParts == SelectSeq(SplitOn(route.path, "/"), LAMBDA part : part # <<>>)
      method == VerbLower[route.method]
      Camel(index) ==
        LET part == pathParts[index]
        IN IF StartsWith(part, <<"{">>) /\ EndsWith(part, <<"}">>)
           THEN <<"By">> \o UpperFirstLowerRest(SubSeq(part, 2, Len(part) - 1))
           ELSE IF index = 1 THEN part ELSE UpperFirst(part)
      RECURSIVE Join(_)
      Join(n) == IF n = 0 THEN <<>> ELSE Join(n - 1) \o Camel(n)
  IN <<method>> \o UpperFirst(Join(Len(pathParts)))

generateParametersFromRoute(route) ==
  [n \in 1..Len(route.pathParams) |->
     [name |-> route.pathParams[n].name,
      in |-> "path",
      required |-> TRUE,
      description |-> IF route.pathParams[n].description # <<>>
                      THEN route.pathParams[n].description
                      ELSE <<"path parameter: ">> \o route.pathParams[n].name,
      schema |-> [type |-> mapTypeToOpenAPI(route.pathParams[n].type),
                  enum |-> Absent, default |-> Absent]]]
  \o
  [n \in 1..Len(route.queryParams) |->
     [name |-> route.queryParams[n].name,
      in |-> "query",
      required |-> route.queryParams[n].required,
      description |-> IF route.queryParams[n].description # <<>>
                      THEN route.queryParams[n].description
                      ELSE <<"query parameter: ">> \o route.queryParams[n].name,
      schema |-> [type |-> mapTypeToOpenAPI(route.queryParams[n].type),
                  enum |-> route.queryParams[n].enum,
                  default |-> route.queryParams[n].defaultValue]]]

generateResponseSchema(route) ==
  LET responseType == route.responseType
  IN CASE responseType = <<"User">> -> [ref |-> <<"ApiResponseUser">>, items |-> Absent]
       [] responseType = <<"Post">> -> [ref |-> <<"ApiResponsePost">>, items |-> Absent]
       [] responseType = <<"Category">> -> [ref |-> <<"ApiResponseCategory">>, items |-> Absent]
       [] responseType = <<"Tag">> -> [ref |-> <<"ApiResponseTag">>, items |-> Absent]
       [] responseType # Absent /\ Includes(responseType, <<"[", "]">>)
            -> [ref |-> <<"ApiResponse", "+", "PaginationInfo">>,
                items |-> ReplaceFirst(responseType, <<"[", "]">>)]
       [] responseType = <<"AuthResponse">> -> [ref |-> <<"AuthResponse">>, items |-> Absent]
       [] OTHER -> [ref |-> <<"ApiResponse">>, items |-> Absent]

\* the status codes of the responses and what each carries
generateResponsesFromRoute(route) ==
  LET method == route.method
      Ok(desc) == [description |-> desc, schema |-> generateResponseSchema(route)]
      Err(code) == [description |-> code, schema |-> [ref |-> <<"ApiError">>, items |-> Absent]]
      byVerb ==
        CASE method = "GET" -> ("200" :> Ok("fetched")) @@ ("404" :> Err("404"))
          [] method = "POST" -> ("201" :> Ok("created")) @@ ("400" :> Err("400"))
          [] method \in {"PUT", "PATCH"} ->
               ("200" :> Ok("updated")) @@ ("400" :> Err("400")) @@ ("404" :> Err("404"))
          [] method = "DELETE" ->
               ("200" :> [description |-> "deleted",
                          schema |-> [ref |-> <<"ApiResponseMessage">>, items |-> Absent]])
               @@ ("404" :> Err("404"))
          [] OTHER -> <<>>
      auth == IF route.requiresAuth
              THEN ("401" :> Err("401")) @@ ("403" :> Err("403"))
              ELSE <<>>
  IN ("500" :> Err("500")) @@ auth @@ byVerb

ExampleSchemas == {<<"CreateUserDto">>, <<"LoginDto">>, <<"CreatePostDto">>, <<"UpdatePostDto">>}

generateRequestBody(route) ==
  LET schemaName == IF route.requestBodyType # Absent THEN route.requestBodyType
                    ELSE <<"CreateUserDto">>
  IN [required |-> TRUE, schema |-> schemaName, examples |-> schemaName \in ExampleSchemas]

\* generateOperation pushing the bearer requirement for a route with roles too
generateOperation_SecurityByRoles(route) ==
  [tags |-> route.tags,
   summary |-> route.summary,
   description |-> IF route.requiresAuth /\ Len(route.requiredRoles) > 0
                   THEN route.description \o <<"\n", "\n", "zh-required-roles", " ">> \o
                        JoinSep(route.requiredRoles, <<",", " ">>)
                   ELSE route.description,
   operationId |-> generateOperationId(route),
   parameters |-> generateParametersFromRoute(route),
   responses |-> generateResponsesFromRoute(route),
   security |-> IF route.requiresAuth \/ Len(route.requiredRoles) > 0
                THEN <<"bearerAuth">> ELSE <<>>,
   requestBody |-> IF route.requestBodyType # Absent THEN generateRequestBody(route)
                   ELSE Absent]

generateOperation(route) ==
  [tags |-> route.tags,
   summary |-> route.summary,
   description |-> IF route.requiresAuth /\ Len(route.requiredRoles) > 0
                   THEN route.description \o <<"\n", "\n", "zh-required-roles", " ">> \o
                        JoinSep(route.requiredRoles, <<",", " ">>)
                   ELSE route.description,
   operationId |-> generateOperationId(route),
   parameters |-> generateParametersFromRoute(route),
   responses |-> generateResponsesFromRoute(route),
   security |-> IF route.requiresAuth THEN <<"bearerAuth">> ELSE <<>>,
   requestBody |-> IF route.requestBodyType # Absent THEN generateRequestBody(route)
                   ELSE Absent]

\* paths[fullPath][method] = operation, route after route
RECURSIVE generatePaths(_)
generatePaths(routes) ==
  IF routes = <<>> THEN <<>>
  ELSE LET paths == generatePaths(SubSeq(routes, 1, Len(routes) - 1))
           route == routes[Len(routes)]
           fullPath == route.prefix \o route.path
           pathItem == IF fullPath \in DOMAIN paths THEN paths[fullPath] ELSE <<>>
           operation == generateOperation(route)
       IN (fullPath :> ((VerbLower[route.method] :> operation) @@ pathItem)) @@ paths

generateOpenAPISpec(routes) ==
  [openapi |-> "3.0.3",
   info |-> [title |-> "BlogV2 Backend API", version |-> "1.0.0"],
   tags |-> generateTags(groupRoutesByTag(routes)),
   paths |-> generatePaths(routes),
   security |-> <<"bearerAuth">>]

(***************************************************************************)
(* The inputs of a run: the route files on disk and the --output path.     *)
(***************************************************************************)
MaxLines == 4

\* parseAllRoutes: const routeFiles = [...]
routeFiles == <<
  <<"user", "-", "routes", ".", "ts">>,
  <<"post", "-", "routes", ".", "ts">>,
  <<"category", "-", "routes", ".", "ts">>,
  <<"tag", "-", "routes", ".", "ts">> >>

BindH == <<"ctrl", ".", "h", ".", "bind", "(", "ctrl", ")", ")", ";">>

RouteHead(verb) == <<"router", ".", verb, "(", "'">>

LOpen == <<"/**">>

LText == <<" ", "*", " ", "list all tags">>

LText2 == <<" ", "*", " ", "more words">>

LStar == <<" ", "*">>

LClose == <<" ", "*/">>

\* /** count tags */
LOneLine == <<"/**", " ", "count tags", " ", "*/">>

\* router.get('/all', ctrl.h.bind(ctrl));
RAll == RouteHead("get") \o <<"/", "all", "'", ",", " ">> \o BindH

\* router.post('/batch', authenticate, authorize('EDITOR', 'ADMIN'), ctrl.h.bind(ctrl));
RBatch == RouteHead("post") \o <<"/", "batch", "'", ",", " ", "authenticate", ",", " ",
  "authorize", "(", "'", "EDITOR", "'", ",", " ", "'", "ADMIN", "'", ")", ",", " ">> \o BindH

\* // router.get('/x', ctrl.h.bind(ctrl));
LCommentedOut == <<"//", " ">> \o RouteHead("get") \o <<"/", "x", "'", ",", " ">> \o BindH

LineCatalog == {LOpen, LText, LClose, LOneLine, RAll, RBatch, LCommentedOut}

\* lines of the sample files
LPrefix == <<" ", "*", " ", "zh-route-prefix", "U+FF1A", "/", "api", "/", "v1", "/", "tags">>

LImport == <<"import", " ", "{", " ", "authenticate", ",", " ", "authorize", " ", "}", " ",
  "from", " ", "'", "../middleware/auth-middleware", "'", ";">>

LBlank == <<>>

\* router.use(authenticate);
LUse == <<"router", ".", "use", "(", "authenticate", ")", ";">>

\* router.use(widget('/x'));
LWidget == <<"router", ".", "use", "(", "wid", "get", "(", "'", "/", "x", "'", ")", ")", ";">>

\* router.get("/x", ctrl.h.bind(ctrl));
LDoubleQuoted == <<"router", ".", "get", "(", "\"", "/", "x", "\"", ",", " ">> \o BindH

\* router.post('/authenticate', ctrl.h.bind(ctrl));
RLogin == RouteHead("post") \o <<"/", "authenticate", "'", ",", " ">> \o BindH

\* router.get('/me', authenticate, ctrl.h.bind(ctrl));
RMe == RouteHead("get") \o <<"/", "me", "'", ",", " ", "authenticate", ",", " ">> \o BindH

\* router.get('/', optionalAuthenticate, ctrl.h.bind(ctrl));
ROptional == RouteHead("get") \o <<"/", "'", ",", " ", "optional", "Authenticate", ",", " ">> \o BindH

\* router.get('/:id', ctrl.h.bind(ctrl));
RById == RouteHead("get") \o <<"/", ":", "id", "'", ",", " ">> \o BindH

\* router.put('/:id', authenticate, authorize('USER', 'EDITOR', 'ADMIN'), ctrl.h.bind(ctrl));
RThreeRoles == RouteHead("put") \o <<"/", ":", "id", "'", ",", " ", "authenticate", ",", " ",
  "authorize", "(", "'", "USER", "'", ",", " ", "'", "EDITOR", "'", ",", " ", "'", "ADMIN", "'",
  ")", ",", " ">> \o BindH

\* router.delete('/:id', authenticate, authorize('ADMIN'), ctrl.h.bind(ctrl));
RDelete == RouteHead("delete") \o <<"/", ":", "id", "'", ",", " ", "authenticate", ",", " ",
  "authorize", "(", "'", "ADMIN", "'", ")", ",", " ">> \o BindH

\* router.patch('/:id', authenticate, (req, res, next) => {
RInline == RouteHead("patch") \o <<"/", ":", "id", "'", ",", " ", "authenticate", ",", " ",
  "(", "req", ",", " ", "res", ",", " ", "next", ")", " ", "=>", " ", "{">>

\*  * @param {string} id zh-path ID
LParamStd == <<" ", "*", " ", "@", "param", " ", "{", "string", "}", " ", "id", " ", "zh-path", "ID">>

\*  *   @param {number} page zh-param zh-optional
LParamPage == <<" ", "*", " ", " ", " ", "@", "param", " ", "{", "number", "}", " ", "page", " ",
  "zh-param", "zh-optional">>

\*  *   @param {number} page zh-query
LParamPage2 == <<" ", "*", " ", " ", " ", "@", "param", " ", "{", "number", "}", " ", "page", " ",
  "zh-query">>

\*  * @returns {Post[]}
LReturns == <<" ", "*", " ", "@", "returns", " ", "{", "Post", "[", "]", "}">>

SampleUser == <<LOpen, LText2, LPrefix, LClose, LImport, LBlank,
  LOpen, LText, LClose, RLogin, RMe, LCommentedOut>>

SamplePost == <<LUse, LOpen, LText, LParamPage, LParamPage2, LReturns, LClose, ROptional,
  RThreeRoles, RById>>

SampleCategory == <<LOneLine, RAll, LOpen, LText, LStar, LText2, LParamStd, LClose, RById,
  LDoubleQuoted>>

SampleTag == <<LOpen, LText, LClose, RBatch, RDelete, LWidget, RInline, RAll, RAll>>

SampleFiles == <<SampleUser, SamplePost, SampleCategory, SampleTag>>

RECURSIVE SeqsUpTo(_, _)
\* the sequences over S of length at most n
SeqsUpTo(S, n) ==
  IF n = 0 THEN {<<>>}
  ELSE LET shorter == SeqsUpTo(S, n - 1)
       IN shorter \cup {Append(q, x) : q \in {r \in shorter : Len(r) = n - 1}, x \in S}

Missing == [exists |-> FALSE, lines |-> <<>>]

File(ls) == [exists |-> TRUE, lines |-> ls]

\* one small file of any content, or any subset of the sample files
FileSystems ==
  {[f \in 1..4 |-> IF f = 1 THEN File(ls) ELSE Missing] : ls \in SeqsUpTo(LineCatalog, MaxLines)}
  \cup
  {[f \in 1..4 |-> IF f \in present THEN File(SampleFiles[f]) ELSE Missing] :
     present \in SUBSET (1..4)}

OutputPaths == {<<"docs/openapi", ".yaml">>, <<"docs/openapi", ".yml">>,
                <<"docs/openapi", ".json">>, <<"docs/openapi", ".txt">>}

DefaultOutputPath == <<"docs/openapi", ".yaml">>

(***************************************************************************)
(* State of one run of main (generate-openapi.ts).                         *)
(***************************************************************************)
VARIABLES
  fsys,            \* the route files on disk
  outputPath,      \* getOutputPath(args)
  pc,              \* the step main is at
  fileIdx,         \* parseAllRoutes: index into routeFiles
  allRoutes,       \* parseAllRoutes: allRoutes
  lines,           \* parseRouteFile: lines of the file being scanned
  prefix,          \* parseRouteFile: prefix
  tags,            \* parseRouteFile: tags
  i,               \* parseRouteFile: loop index (1-based here)
  lineNumber,      \* parseRouteFile: lineNumber
  currentComment,  \* parseRouteFile: currentComment, as its list of lines
  routes,          \* parseRouteFile: routes
  openapiSpec,     \* main: openapiSpec
  written,         \* the document in the output file, or NoDocument
  warnings,        \* what console.warn printed
  exitCode,        \* process exit code, -1 while running
  caught,          \* the error main's catch block logged, NoError if none
  commentAt,       \* history: line at which currentComment was opened, 0 if none
  src,             \* history: for each element of routes, where it came from
  allSrc           \* history: for each element of allRoutes, where it came from

vars == <<fsys, outputPath, pc, fileIdx, allRoutes, lines, prefix, tags, i, lineNumber,
          currentComment, routes, openapiSpec, written, warnings, exitCode, caught,
          commentAt, src, allSrc>>

scanVars == <<lines, prefix, tags, i, lineNumber, currentComment, routes, commentAt, src>>

NoError == [phase |-> "", file |-> 0]

NoDocument == [openapi |-> "", info |-> [title |-> "", version |-> ""], tags |-> <<>>,
               paths |-> <<>>, security |-> <<>>]

Init ==
  /\ fsys \in FileSystems
  /\ outputPath \in OutputPaths
  /\ (\E f \in 1..4 : fsys[f].exists /\ fsys[f].lines # SampleFiles[f]) => outputPath = DefaultOutputPath
  /\ pc = "parseAllRoutes"
  /\ fileIdx = 1
  /\ allRoutes = <<>>
  /\ lines = <<>>
  /\ prefix = <<>>
  /\ tags = <<>>
  /\ i = 1
  /\ lineNumber = 0
  /\ currentComment = <<>>
  /\ routes = <<>>
  /\ openapiSpec = NoDocument
  /\ written = NoDocument
  /\ warnings = {}
  /\ exitCode = -1
  /\ caught = NoError
  /\ commentAt = 0
  /\ src = <<>>
  /\ allSrc = <<>>

(***************************************************************************)
(* parseAllRoutes (CLI)                                                    *)
(***************************************************************************)
\* a missing file thrown to main's catch block
SkipMissingFile_Abort ==
  /\ pc = "parseAllRoutes"
  /\ fileIdx <= Len(routeFiles)
  /\ ~fsys[fileIdx].exists
  /\ pc' = "exit"
  /\ exitCode' = 1
  /\ caught' = [phase |-> "parse", file |-> fileIdx]
  /\ UNCHANGED <<fsys, outputPath, fileIdx, allRoutes, openapiSpec, written, warnings, allSrc>>
  /\ UNCHANGED scanVars

\* if (!fs.existsSync(filePath)) { console.warn(...); continue; }
SkipMissingFile ==
  /\ pc = "parseAllRoutes"
  /\ fileIdx <= Len(routeFiles)
  /\ ~fsys[fileIdx].exists
  /\ warnings' = warnings \cup {<<"missing route file", fileIdx>>}
  /\ fileIdx' = fileIdx + 1
  /\ UNCHANGED <<fsys, caught, outputPath, pc, allRoutes, openapiSpec, written, exitCode, allSrc>>
  /\ UNCHANGED scanVars

\* fs.readFileSync(filePath, 'utf8') throws in parseRouteFile (the path exists but
\* is unreadable, or is a directory): nothing between it and main's catch block
ReadFails ==
  /\ pc = "parseAllRoutes"
  /\ fileIdx <= Len(routeFiles)
  /\ fsys[fileIdx].exists
  /\ pc' = "exit"
  /\ exitCode' = 1
  /\ caught' = [phase |-> "parse", file |-> fileIdx]
  /\ UNCHANGED <<fsys, outputPath, fileIdx, allRoutes, openapiSpec, written, warnings, allSrc>>
  /\ UNCHANGED scanVars

\* the content joined back: lines.join('\n')
Content(ls) == JoinNL(ls)

\* parseRouteFile up to the first iteration of its loop
OpenRouteFile ==
  /\ pc = "parseAllRoutes"
  /\ fileIdx <= Len(routeFiles)
  /\ fsys[fileIdx].exists
  /\ lines' = fsys[fileIdx].lines
  /\ prefix' = extractRoutePrefix(Content(fsys[fileIdx].lines))
  /\ tags' = extractTagsFromFileName(routeFiles[fileIdx])
  /\ currentComment' = <<>>
  /\ lineNumber' = 0
  /\ i' = 1
  /\ routes' = <<>>
  /\ commentAt' = 0
  /\ src' = <<>>
  /\ pc' = "parseRouteFile"
  /\ UNCHANGED <<fsys, caught, outputPath, fileIdx, allRoutes, openapiSpec, written, warnings,
                 exitCode, allSrc>>

(***************************************************************************)
(* parseRouteFile: one iteration of "for (let i = 0; i < lines.length; i++)"*)
(***************************************************************************)
\* the j at which the inner while loop stops
BlockEnd(ls, from) ==
  LET closing == {j \in from..Len(ls) : Includes(Trim(ls[j]), <<"*/">>)}
  IN IF closing = {} THEN Len(ls) + 1 ELSE MinOf(closing)

IsBlockStart(line) == StartsWith(line, <<"/**">>)

IsRouteLike(line) ==
  /\ Includes(line, <<"router", ".">>)
  /\ \E v \in Verbs : Includes(line, <<v, "(">>)

RECURSIVE ScanLines(_, _, _, _, _)
\* the Routes the loop of parseRouteFile pushes from line k on, comment pending
ScanLines(ls, k, comment, pfx, tgs) ==
  IF k > Len(ls) THEN <<>>
  ELSE IF IsBlockStart(Trim(ls[k]))
  THEN ScanLines(ls, BlockEnd(ls, k + 1) + 1,
                 <<Trim(ls[k])>> \o SubSeq(ls, k + 1, MinOf({BlockEnd(ls, k + 1), Len(ls)})),
                 pfx, tgs)
  ELSE IF IsRouteLike(Trim(ls[k]))
  THEN LET route == parseRouteLine(Trim(ls[k]), comment, pfx, tgs)
       IN (IF route # Null THEN <<route>> ELSE <<>>) \o ScanLines(ls, k + 1, <<>>, pfx, tgs)
  ELSE ScanLines(ls, k + 1, comment, pfx, tgs)

\* parseRouteFile as a function of the file's name and lines
parseRouteFile(fileName, ls) ==
  ScanLines(ls, 1, <<>>, extractRoutePrefix(Content(ls)), extractTagsFromFileName(fileName))

\* the block reader failing at the end of the file when no terminator is left
ScanCommentBlock_Throws ==
  /\ pc = "parseRouteFile"
  /\ i <= Len(lines)
  /\ IsBlockStart(Trim(lines[i]))
  /\ IF BlockEnd(lines, i + 1) <= Len(lines)
     THEN /\ currentComment' = <<Trim(lines[i])>> \o SubSeq(lines, i + 1, BlockEnd(lines, i + 1))
          /\ commentAt' = i
          /\ i' = BlockEnd(lines, i + 1) + 1
          /\ UNCHANGED <<pc, exitCode, caught>>
     ELSE /\ pc' = "exit"
          /\ exitCode' = 1
          /\ caught' = [phase |-> "parse", file |-> fileIdx]
          /\ UNCHANGED <<currentComment, commentAt, i>>
  /\ UNCHANGED <<fsys, outputPath, fileIdx, allRoutes, lines, prefix, tags, lineNumber,
                 routes, openapiSpec, written, warnings, src, allSrc>>

ScanCommentBlock ==
  /\ pc = "parseRouteFile"
  /\ i <= Len(lines)
  /\ LET line == Trim(lines[i])
         j == BlockEnd(lines, i + 1)
     IN /\ IsBlockStart(line)
        /\ currentComment' = <<line>> \o SubSeq(lines, i + 1, IF j <= Len(lines) THEN j ELSE Len(lines))
        /\ commentAt' = i
        /\ i' = j + 1
  /\ UNCHANGED <<fsys, caught, outputPath, pc, fileIdx, allRoutes, lines, prefix, tags, lineNumber,
                 routes, openapiSpec, written, warnings, exitCode, src, allSrc>>

\* routes.unshift(route)
PushRoute_Front(rs, route) == <<route>> \o rs

\* routes.push(route)
PushRoute(rs, route) == Append(rs, route)

\* the comment kept after a route-like line
ResetComment_Keep(comment) == comment

\* currentComment = '' after a route-like line
ResetComment(comment) == <<>>

ScanRouteLine ==
  /\ pc = "parseRouteFile"
  /\ i <= Len(lines)
  /\ LET line == Trim(lines[i])
         route == parseRouteLine(line, currentComment, prefix, tags)
     IN /\ ~IsBlockStart(line)
        /\ IsRouteLike(line)
        /\ IF route # Null
           THEN /\ routes' = PushRoute(routes, route)
                /\ src' = Append(src, [file |-> fileIdx, line |-> i, block |-> commentAt])
           ELSE UNCHANGED <<routes, src>>
  /\ currentComment' = ResetComment(currentComment)
  /\ commentAt' = IF currentComment' = <<>> THEN 0 ELSE commentAt
  /\ lineNumber' = lineNumber + 1
  /\ i' = i + 1
  /\ UNCHANGED <<fsys, caught, outputPath, pc, fileIdx, allRoutes, lines, prefix, tags,
                 openapiSpec, written, warnings, exitCode, allSrc>>

\* a line that is neither a block start nor route-like dropping the comment
ScanOtherLine_DropsComment ==
  /\ pc = "parseRouteFile"
  /\ i <= Len(lines)
  /\ ~IsBlockStart(Trim(lines[i]))
  /\ ~IsRouteLike(Trim(lines[i]))
  /\ currentComment' = <<>>
  /\ commentAt' = 0
  /\ lineNumber' = lineNumber + 1
  /\ i' = i + 1
  /\ UNCHANGED <<fsys, caught, outputPath, pc, fileIdx, allRoutes, lines, prefix, tags,
                 routes, openapiSpec, written, warnings, exitCode, src, allSrc>>

ScanOtherLine ==
  /\ pc = "parseRouteFile"
  /\ i <= Len(lines)
  /\ ~IsBlockStart(Trim(lines[i]))
  /\ ~IsRouteLike(Trim(lines[i]))
  /\ lineNumber' = lineNumber + 1
  /\ i' = i + 1
  /\ UNCHANGED <<fsys, caught, outputPath, pc, fileIdx, allRoutes, lines, prefix, tags,
                 currentComment, routes, openapiSpec, written, warnings, exitCode,
                 commentAt, src, allSrc>>

\* return routes;  allRoutes.push(...routes)
FinishRouteFile ==
  /\ pc = "parseRouteFile"
  /\ i > Len(lines)
  /\ allRoutes' = allRoutes \o routes
  /\ allSrc' = allSrc \o src
  /\ fileIdx' = fileIdx + 1
  /\ pc' = "parseAllRoutes"
  /\ UNCHANGED <<fsys, caught, outputPath, openapiSpec, written, warnings, exitCode>>
  /\ UNCHANGED scanVars

(***************************************************************************)
(* main: steps 2 to 4                                                      *)
(***************************************************************************)
\* generateOpenAPISpec stamping the document with a value of the run
Generate_Stamped ==
  /\ pc = "parseAllRoutes"
  /\ fileIdx > Len(routeFiles)
  /\ \E stamp \in {"1.0.0", "1.0.0+build"} :
       openapiSpec' = [generateOpenAPISpec(allRoutes) EXCEPT !.info.version = stamp]
  /\ pc' = "writeOutput"
  /\ UNCHANGED <<fsys, caught, outputPath, fileIdx, allRoutes, written, warnings, exitCode, allSrc>>
  /\ UNCHANGED scanVars

Generate ==
  /\ pc = "parseAllRoutes"
  /\ fileIdx > Len(routeFiles)
  /\ openapiSpec' = generateOpenAPISpec(allRoutes)
  /\ pc' = "writeOutput"
  /\ UNCHANGED <<fsys, caught, outputPath, fileIdx, allRoutes, written, warnings, exitCode, allSrc>>
  /\ UNCHANGED scanVars

SupportedFormat(path) ==
  EndsWith(path, <<".yaml">>) \/ EndsWith(path, <<".yml">>) \/ EndsWith(path, <<".json">>)

\* writeOutput falling back to JSON for an extension it does not know
WriteOutput_AnyExtension ==
  /\ pc = "writeOutput"
  /\ written' = openapiSpec
  /\ pc' = "validateOutput"
  /\ UNCHANGED <<fsys, caught, outputPath, fileIdx, allRoutes, openapiSpec, warnings, exitCode, allSrc>>
  /\ UNCHANGED scanVars

\* writeOutput returns: yaml.dump / JSON.stringify and fs.writeFileSync succeeded
WriteOutput ==
  /\ pc = "writeOutput"
  /\ SupportedFormat(outputPath)
  /\ written' = openapiSpec
  /\ pc' = "validateOutput"
  /\ UNCHANGED <<fsys, caught, outputPath, fileIdx, allRoutes, openapiSpec, warnings, exitCode, allSrc>>
  /\ UNCHANGED scanVars

\* writeOutput throws: unsupported extension, or mkdirSync / writeFileSync fails
WriteFails ==
  /\ pc = "writeOutput"
  /\ pc' = "exit"
  /\ exitCode' = 1
  /\ caught' = [phase |-> "write", file |-> 0]
  /\ UNCHANGED <<fsys, outputPath, fileIdx, allRoutes, openapiSpec, written, warnings, allSrc>>
  /\ UNCHANGED scanVars

ValidateOutput ==
  /\ pc = "validateOutput"
  /\ IF written.openapi = "" \/ written.info.title = ""
     THEN /\ pc' = "exit"
          /\ exitCode' = 1
          /\ caught' = [phase |-> "validate", file |-> 0]
          /\ UNCHANGED warnings
     ELSE /\ pc' = "done"
          /\ exitCode' = 0
          /\ UNCHANGED caught
          /\ warnings' = IF DOMAIN written.paths = {}
                         THEN warnings \cup {<<"no paths", 0>>}
                         ELSE warnings
  /\ UNCHANGED <<fsys, outputPath, fileIdx, allRoutes, openapiSpec, written, allSrc>>
  /\ UNCHANGED scanVars

Next ==
  \/ SkipMissingFile
  \/ ReadFails
  \/ OpenRouteFile
  \/ ScanCommentBlock
  \/ ScanRouteLine
  \/ ScanOtherLine
  \/ FinishRouteFile
  \/ Generate
  \/ WriteOutput
  \/ WriteFails
  \/ ValidateOutput

Spec == Init /\ [][Next]_vars

(***************************************************************************)
(* generateOpenAPISpec applied to a corpus handed to it by a caller.       *)
(***************************************************************************)
MaxRoutes == 2

Route(method, path, routeTags, auth, roles, qps, pps) ==
  [path |-> path, method |-> method,
   description |-> <<"zh-no-description">>, summary |-> <<"zh-no-summary">>,
   requiresAuth |-> auth, requiredRoles |-> roles,
   requestBodyType |-> Absent, responseType |-> Absent,
   queryParams |-> qps, pathParams |-> pps, rawComment |-> <<>>,
   handler |-> Absent, prefix |-> <<"/", "api", "/", "v1">>, tags |-> routeTags]

IdParam == [name |-> <<"id">>, type |-> <<"string">>, description |-> <<"zh-path", "ID">>]

PageParam == [name |-> <<"page">>, type |-> <<"number">>, description |-> <<"zh-param">>,
              required |-> TRUE, defaultValue |-> Absent, enum |-> Absent]

RouteCatalog == {
  Route("GET", <<"/", "all">>, <<"zh-tag">>, FALSE, <<>>, <<>>, <<>>),
  Route("GET", <<"/", "all">>, <<"zh-category">>, FALSE, <<>>, <<PageParam>>, <<>>),
  Route("GET", <<"/", ":", "id">>, <<"zh-tag", "zh-other">>, FALSE, <<>>, <<>>, <<IdParam>>),
  Route("GET", <<"/", ":", "id">>, <<>>, FALSE, <<>>, <<>>, <<IdParam, IdParam>>),
  Route("POST", <<"/", "batch">>, <<"zh-other">>, TRUE, <<<<"EDITOR">>, <<"ADMIN">>>>, <<>>, <<>>),
  Route("DELETE", <<"/", ":", "id">>, <<"zh-user", "zh-post", "audit">>, TRUE, <<<<"ADMIN">>>>,
        <<>>, <<IdParam>>),
  Route("PATCH", <<"/", "me">>, <<"zh-user">>, TRUE, <<>>, <<PageParam, PageParam>>, <<>>),
  Route("PUT", <<"/", "{", "id", "}">>, <<"audit", "zh-system">>, FALSE, <<<<"ADMIN">>>>, <<>>, <<>>),
  [Route("GET", <<"/", "all">>, <<"zh-user">>, FALSE, <<>>, <<>>, <<>>)
     EXCEPT !.prefix = <<"/", "api", "/", "v1", "/", "users">>],
  [Route("GET", <<"/", "slug">>, <<"zh-post">>, FALSE, <<>>, <<>>, <<>>)
     EXCEPT !.responseType = <<"Post", "[", "]">>],
  [Route("POST", <<"/", "me">>, <<"zh-post">>, FALSE, <<>>, <<>>, <<>>)
     EXCEPT !.responseType = <<"Post">>],
  [Route("GET", <<"/", "tags">>, <<"zh-tag">>, FALSE, <<>>, <<>>, <<>>)
     EXCEPT !.responseType = <<"CreateTagDto">>]}

Corpora == SeqsUpTo(RouteCatalog, MaxRoutes)

InitSynth ==
  /\ fsys = [f \in 1..4 |-> Missing]
  /\ outputPath = DefaultOutputPath
  /\ pc = "parseAllRoutes"
  /\ fileIdx = Len(routeFiles) + 1
  /\ allRoutes \in Corpora
  /\ lines = <<>>
  /\ prefix = <<>>
  /\ tags = <<>>
  /\ i = 1
  /\ lineNumber = 0
  /\ currentComment = <<>>
  /\ routes = <<>>
  /\ openapiSpec = NoDocument
  /\ written = NoDocument
  /\ warnings = {}
  /\ exitCode = -1
  /\ caught = NoError
  /\ commentAt = 0
  /\ src = <<>>
  /\ allSrc = <<>>

NextSynth == Generate

SpecSynth == InitSynth /\ [][NextSynth]_vars

(***************************************************************************)
(* Properties                                                              *)
(***************************************************************************)
\* generateOpenAPISpec has returned
Generated ==
  /\ pc \in {"writeOutput", "validateOutput", "done", "exit"}
  /\ caught.phase # "parse"

\* the (path key, method) pairs of the document
Operations(doc) ==
  UNION {{<<p, m>> : m \in DOMAIN doc.paths[p]} : p \in DOMAIN doc.paths}

\* C1: each Route of the corpus has its own Operation: the document holds as
\* many (path key, method) operations as the corpus holds Routes.
C1_OneOperationPerRoute ==
  Generated => Cardinality(Operations(openapiSpec)) = Len(allRoutes)

\* the Routes returned so far, in list order, and where each came from
Emitted == IF pc = "parseRouteFile" THEN allRoutes \o routes ELSE allRoutes

EmittedSrc == IF pc = "parseRouteFile" THEN allSrc \o src ELSE allSrc

LineOf(at) == Trim(fsys[at.file].lines[at.line])

PrefixOf(f) == extractRoutePrefix(Content(fsys[f].lines))

TagsOf(f) == extractTagsFromFileName(routeFiles[f])

Range(q) == {q[n] : n \in 1..Len(q)}

\* C2: the Routes of a file are listed in the order of their lines, and the
\* corpus lists the files' Routes in the order of the file list: the n-th
\* Route is the Route of the n-th route-yielding line in (file, line) order.
C2_SourceOrder ==
  /\ Len(Emitted) = Len(EmittedSrc)
  /\ \A n \in 1..Len(Emitted) :
       Emitted[n] = parseRouteLine(LineOf(EmittedSrc[n]), Emitted[n].rawComment,
                                   PrefixOf(EmittedSrc[n].file), TagsOf(EmittedSrc[n].file))
  /\ \A n, m \in 1..Len(EmittedSrc) :
       n < m => \/ EmittedSrc[n].file < EmittedSrc[m].file
                \/ /\ EmittedSrc[n].file = EmittedSrc[m].file
                   /\ EmittedSrc[n].line < EmittedSrc[m].line

\* a finished run whose corpus has two different Routes of one file and Routes of two files
C2_Witness ==
  /\ pc = "done"
  /\ \E n \in 1..(Len(allRoutes) - 1) :
       allSrc[n].file = allSrc[n + 1].file /\ allRoutes[n] # allRoutes[n + 1]
  /\ \E n \in 1..(Len(allRoutes) - 1) : allSrc[n].file # allSrc[n + 1].file

\* a route registration: router.<verb>( and a single-quoted literal, not in a line comment
IsRegistration(line) ==
  /\ ~IsBlockStart(line)
  /\ ~StartsWith(line, <<"//">>)
  /\ MethodMatches(line) # {}
  /\ PathMatches(line) # {}

\* lines b..e of ls are one documentation block: opened at b, closed at e (b = e
\* for a one-line block), and b is not inside an earlier block
DocBlock(ls, b, e) ==
  /\ IsBlockStart(Trim(ls[b]))
  /\ Includes(Trim(ls[e]), <<"*/">>)
  /\ \A j \in b..(e - 1) : ~Includes(Trim(ls[j]), <<"*/">>)
  /\ \A j \in (b + 1)..e : ~IsBlockStart(Trim(ls[j]))
  /\ \A a \in 1..(b - 1) :
       IsBlockStart(Trim(ls[a])) => \E j \in a..(b - 1) : Includes(Trim(ls[j]), <<"*/">>)

BlockText(ls, b, e) == <<Trim(ls[b])>> \o SubSeq(ls, b + 1, e)

\* C3: a documentation block that ends on the line right before a route
\* registration gives that line a Route carrying the block's summary,
\* description and parameters, whatever the shape of the block.
C3_BlockBindsToNextRoute ==
  pc = "parseRouteFile" =>
    \A k \in 2..Len(lines) : \A b \in 1..(k - 1) :
      (k < i /\ IsRegistration(Trim(lines[k])) /\ DocBlock(lines, b, k - 1)) =>
        \E n \in 1..Len(routes) :
          /\ src[n].line = k
          /\ LET want == parseRouteLine(Trim(lines[k]), BlockText(lines, b, k - 1), prefix, tags)
             IN /\ routes[n].summary = want.summary
                /\ routes[n].description = want.description
                /\ routes[n].queryParams = want.queryParams
                /\ routes[n].pathParams = want.pathParams

\* the scan is at a route registration and holds no pending comment
NoPendingRegistration ==
  /\ pc = "parseRouteFile"
  /\ i <= Len(lines)
  /\ currentComment = <<>>
  /\ IsRegistration(Trim(lines[i]))

C5_CommentConsumedOnce ==
  /\ \A n \in 1..Len(Emitted) : (Emitted[n].rawComment = <<>>) <=> (EmittedSrc[n].block = 0)
  /\ \A n, m \in 1..Len(EmittedSrc) :
       (n # m /\ EmittedSrc[n].file = EmittedSrc[m].file /\ EmittedSrc[n].block # 0)
         => EmittedSrc[n].block # EmittedSrc[m].block

\* a Route that took a block is followed, with no block in between, by a Route of the same file
C5_Witness ==
  \E n \in 1..(Len(EmittedSrc) - 1) :
    /\ EmittedSrc[n].file = EmittedSrc[n + 1].file
    /\ EmittedSrc[n].block # 0
    /\ EmittedSrc[n + 1].block = 0
    /\ \A j \in (EmittedSrc[n].line + 1)..(EmittedSrc[n + 1].line - 1) :
         ~IsBlockStart(Trim(fsys[EmittedSrc[n].file].lines[j]))

\* the literal that is the first argument of the router.<verb>( call at k
FirstArgument(line, k) == SubSeq(line, k + 5, k + 4 + RunNot(line, k + 5, {"'"}))

\* C6: every Route comes from a line that is no line comment and holds a
\* router.<verb>( call whose first argument is a quoted path literal, and the
\* Route's path is that literal.
C6_OnlyRegistrations ==
  \A n \in 1..Len(Emitted) :
    LET line == LineOf(EmittedSrc[n])
    IN /\ ~StartsWith(line, <<"//">>)
       /\ \E k \in MethodMatches(line) :
            /\ k + 4 <= Len(line) /\ line[k + 4] = "'"
            /\ FirstArgument(line, k) # <<>>
            /\ Emitted[n].path = IF StartsWith(FirstArgument(line, k), <<"/">>)
                                 THEN FirstArgument(line, k)
                                 ELSE <<"/">> \o FirstArgument(line, k)

\* the arguments after the path literal
HandlerChain(line) ==
  LET pk == MinOf(PathMatches(line))
  IN Drop(line, pk + 2 + RunNot(line, pk + 2, {"'"}))

\* the identifier name stands in the chain as a whole word
References(chain, name) ==
  \E p \in 1..Len(chain) :
    /\ chain[p] = name
    /\ p = 1 \/ chain[p - 1] \notin WordToks
    /\ p = Len(chain) \/ chain[p + 1] \notin WordToks

\* C7: requiresAuth is true exactly when the handler chain references authenticate.
C7_AuthIffChain ==
  \A n \in 1..Len(Emitted) :
    Emitted[n].requiresAuth <=> References(HandlerChain(LineOf(EmittedSrc[n])), "authenticate")

\* the quoted arguments of the first authorize( call, in order
AuthorizeArguments(line) ==
  IF ~Includes(line, <<"authorize", "(">>) THEN <<>>
  ELSE LET k == MinOf(Occurrences(line, <<"authorize", "(">>))
           inner == SubSeq(line, k + 2, k + 1 + RunNot(line, k + 2, {")"}))
           names == SelectSeq(inner, LAMBDA t : t \notin Quotes \cup {",", " "})
       IN [n \in 1..Len(names) |-> <<names[n]>>]

\* C8: requiredRoles is the sequence of all the role arguments of authorize,
\* later duplicates removed, and is empty without an authorize call.
C8_AllRoles ==
  \A n \in 1..Len(Emitted) :
    Emitted[n].requiredRoles = Dedup(AuthorizeArguments(LineOf(EmittedSrc[n])))

\* C9: every tag of every Operation is the name of an entry of the document's tags.
C9_NoDanglingTag ==
  Generated =>
    \A o \in Operations(openapiSpec) :
      \A t \in Range(openapiSpec.paths[o[1]][o[2]].tags) :
        \E e \in Range(openapiSpec.tags) : e.name = t

\* a document with an untagged Operation and an Operation of several tags, one not in the table
C9_Witness ==
  /\ Generated
  /\ \E o \in Operations(openapiSpec) : openapiSpec.paths[o[1]][o[2]].tags = <<>>
  /\ \E o \in Operations(openapiSpec) :
       /\ Len(openapiSpec.paths[o[1]][o[2]].tags) >= 2
       /\ \E t \in Range(openapiSpec.paths[o[1]][o[2]].tags) : t \notin tagDescriptions

\* C10: the parameters of an Operation hold no two entries of the same name and place.
C10_NoDuplicateParameter ==
  Generated =>
    \A o \in Operations(openapiSpec) :
      LET ps == openapiSpec.paths[o[1]][o[2]].parameters
      IN \A a, b \in 1..Len(ps) :
           a # b => <<ps[a].name, ps[a]["in"]>> # <<ps[b].name, ps[b]["in"]>>

\* the (path key, method) under which the Operation of a Route is stored
KeyOf(route) == <<route.prefix \o route.path, VerbLower[route.method]>>

\* the Operation the document holds at a key
OperationAt(doc, key) == doc.paths[key[1]][key[2]]

\* no later Route of the corpus has the key of the n-th
LastOfKey(rs, n) == \A m \in (n + 1)..Len(rs) : KeyOf(rs[m]) # KeyOf(rs[n])

\* C11: no two Operations of the document have the same operationId.
C11_UniqueOperationIds ==
  Generated =>
    \A o1, o2 \in Operations(openapiSpec) :
      o1 # o2 => OperationAt(openapiSpec, o1).operationId # OperationAt(openapiSpec, o2).operationId

\* C12: when two Routes of the corpus have the same prefix+path and method, a
\* duplicate (path, verb) collision is among the warnings, a document is
\* returned and the Operation stored at that key is the later Route's.
C12_CollisionReported ==
  Generated =>
    \A n, m \in 1..Len(allRoutes) :
      (n < m /\ KeyOf(allRoutes[n]) = KeyOf(allRoutes[m])) =>
        /\ \E w \in warnings : w[1] = "duplicate (path, verb)"
        /\ openapiSpec # NoDocument
        /\ LastOfKey(allRoutes, m) =>
             OperationAt(openapiSpec, KeyOf(allRoutes[m])) = generateOperation(allRoutes[m])

\* C13: the security array of the Operation stored for a Route holds the
\* bearerAuth requirement when the Route's requiresAuth is true and is empty
\* otherwise, whatever its requiredRoles.
C13_SecurityIffRequiresAuth ==
  Generated =>
    \A n \in 1..Len(allRoutes) :
      LastOfKey(allRoutes, n) =>
        OperationAt(openapiSpec, KeyOf(allRoutes[n])).security =
          IF allRoutes[n].requiresAuth THEN <<"bearerAuth">> ELSE <<>>

\* a document with the Operations of a Route that requires authentication, of a
\* Route with roles but no authentication, and of a Route with neither
C13_Witness ==
  /\ Generated
  /\ \E n \in 1..Len(allRoutes) : allRoutes[n].requiresAuth
  /\ \E n \in 1..Len(allRoutes) :
       /\ ~allRoutes[n].requiresAuth /\ allRoutes[n].requiredRoles # <<>>
       /\ OperationAt(openapiSpec, KeyOf(allRoutes[n])).security = <<>>

RECURSIVE CorpusUpTo(_)
\* the Routes of the existing files among the first f of the file list, in list order
CorpusUpTo(f) ==
  IF f = 0 THEN <<>>
  ELSE CorpusUpTo(f - 1) \o
       (IF fsys[f].exists THEN parseRouteFile(routeFiles[f], fsys[f].lines) ELSE <<>>)

\* C14: whatever subset of the route files exists, each missing file is
\* skipped with a warning and stops no run, the corpus is the Routes of the
\* existing files in file-list order, a document is synthesized from it and
\* written; with no file at all the document has no path and validation only warns.
C14_MissingFilesSkipped ==
  /\ \A f \in 1..Len(routeFiles) :
       (<<"missing route file", f>> \in warnings) <=> (f < fileIdx /\ ~fsys[f].exists)
  /\ (pc = "exit" /\ caught.phase = "parse") => fsys[caught.file].exists
  /\ Generated => (allRoutes = CorpusUpTo(Len(routeFiles)) /\ openapiSpec # NoDocument)
  /\ pc \in {"validateOutput", "done"} => written = openapiSpec
  /\ (\A f \in 1..Len(routeFiles) : ~fsys[f].exists) =>
       /\ Generated => DOMAIN openapiSpec.paths = {}
       /\ pc = "exit" => caught.phase = "write"
       /\ pc = "done" => (exitCode = 0 /\ <<"no paths", 0>> \in warnings)

\* a finished run in which the first and third files are missing and the
\* second and fourth exist and gave Routes
C14_Witness ==
  /\ pc = "done"
  /\ ~fsys[1].exists /\ fsys[2].exists /\ ~fsys[3].exists /\ fsys[4].exists
  /\ warnings = {<<"missing route file", 1>>, <<"missing route file", 3>>}
  /\ \E n \in 1..Len(allRoutes) : allSrc[n].file = 2
  /\ \E n \in 1..Len(allRoutes) : allSrc[n].file = 4
  /\ written.paths # <<>>

\* C15: a finished run has exit code 1 exactly when writing the output failed
\* or the document read back lacked a required top-level field, and exit
\* code 0 otherwise.
C15_ExitCode ==
  pc \in {"done", "exit"} =>
    /\ exitCode \in {0, 1}
    /\ exitCode = 1 <=> caught.phase \in {"write", "validate"}

\* the document of a set of route files: the synthesis of their Routes
DocumentOf(fs) ==
  generateOpenAPISpec(
    parseRouteFile(routeFiles[1], IF fs[1].exists THEN fs[1].lines ELSE <<>>) \o
    parseRouteFile(routeFiles[2], IF fs[2].exists THEN fs[2].lines ELSE <<>>) \o
    parseRouteFile(routeFiles[3], IF fs[3].exists THEN fs[3].lines ELSE <<>>) \o
    parseRouteFile(routeFiles[4], IF fs[4].exists THEN fs[4].lines ELSE <<>>))

AtTerminatedBlock ==
  /\ pc = "parseRouteFile"
  /\ i <= Len(lines)
  /\ IsBlockStart(Trim(lines[i]))
  /\ \E j \in i..Len(lines) : Includes(Trim(lines[j]), <<"*/">>)

\* the first line at or after i that contains the closing marker
Terminator == MinOf({j \in i..Len(lines) : Includes(Trim(lines[j]), <<"*/">>)})

\* C17: reading a documentation block that begins at line i takes the lines
\* up to and including the first line at or after i that contains the
\* closing marker, and the scan resumes at the line after it.
C17_BlockEndsAtFirstTerminator ==
  [][AtTerminatedBlock =>
       /\ i' = Terminator + 1 \/ (Terminator = Len(lines) /\ i' > Len(lines))
       /\ currentComment' = <<Trim(lines[i])>> \o SubSeq(lines, i + 1, Terminator)]_vars

\* C18: an error of the parsing phase never reaches main's catch block: no
\* run ends because a route file could not be read, and every finished
\* run has synthesized a document.
C18_ParseErrorContained ==
  pc \in {"done", "exit"} => (caught.phase # "parse" /\ openapiSpec # NoDocument)

\* the non-empty segments of a route path
Segments(path) == SelectSeq(SplitOn(path, "/"), LAMBDA part : part # <<>>)

RECURSIVE CamelSegments(_, _)
\* the first n segments camel-cased, a :param segment giving By<Param>
CamelSegments(parts, n) ==
  IF n = 0 THEN <<>>
  ELSE CamelSegments(parts, n - 1) \o
       (IF StartsWith(parts[n], <<":">>) THEN <<"By">> \o UpperFirst(Tail(parts[n]))
        ELSE UpperFirst(parts[n]))

\* C19: the operationId stored for a Route is the lower-case verb followed by
\* the camel-cased path segments, a :param segment giving By<Param>, and
\* holds no colon.
C19_OperationIdByParam ==
  Generated =>
    \A n \in 1..Len(allRoutes) :
      LastOfKey(allRoutes, n) =>
        /\ OperationAt(openapiSpec, KeyOf(allRoutes[n])).operationId =
             <<VerbLower[allRoutes[n].method]>> \o
             CamelSegments(Segments(allRoutes[n].path), Len(Segments(allRoutes[n].path)))
        /\ ":" \notin Range(OperationAt(openapiSpec, KeyOf(allRoutes[n])).operationId)

\* C20: the responses stored for a Route hold 401 and 403 exactly when the
\* Route requires authentication or has required roles, and always hold 500.
C20_AuthResponses ==
  Generated =>
    \A n \in 1..Len(allRoutes) :
      LastOfKey(allRoutes, n) =>
        LET responses == OperationAt(openapiSpec, KeyOf(allRoutes[n])).responses
            guarded == allRoutes[n].requiresAuth \/ allRoutes[n].requiredRoles # <<>>
        IN /\ "401" \in DOMAIN responses <=> guarded
           /\ "403" \in DOMAIN responses <=> guarded
           /\ "500" \in DOMAIN responses

\* the path addresses one resource through a placeholder segment
SingleResourceShaped(path) ==
  \E n \in 1..Len(Segments(path)) :
    StartsWith(Segments(path)[n], <<":">>) \/ StartsWith(Segments(path)[n], <<"{">>)

\* C21: the responses stored for a Route hold 404 exactly when the Route's
\* path has a placeholder segment.
C21_NotFoundIffSingleResource ==
  Generated =>
    \A n \in 1..Len(allRoutes) :
      LastOfKey(allRoutes, n) =>
        ("404" \in DOMAIN OperationAt(openapiSpec, KeyOf(allRoutes[n])).responses
           <=> SingleResourceShaped(allRoutes[n].path))

\* the status code of the success response of a method
SuccessCode(method) == IF method = "POST" THEN "201" ELSE "200"

\* C22: the success response schema of a Route (DELETE has a fixed one) is
\* the paginated composition over the item type when responseType ends in
\* [], the bare generic envelope when responseType is absent, and otherwise a
\* schema other than the bare generic envelope.
C22_ResponseSchemaThreeWay ==
  Generated =>
    \A n \in 1..Len(allRoutes) :
      (LastOfKey(allRoutes, n) /\ allRoutes[n].method # "DELETE") =>
        LET responseType == allRoutes[n].responseType
            schema == OperationAt(openapiSpec, KeyOf(allRoutes[n]))
                        .responses[SuccessCode(allRoutes[n].method)].schema
        IN IF responseType = Absent
           THEN schema = [ref |-> <<"ApiResponse">>, items |-> Absent]
           ELSE IF EndsWith(responseType, <<"[", "]">>)
           THEN schema = [ref |-> <<"ApiResponse", "+", "PaginationInfo">>,
                          items |-> SubSeq(responseType, 1, Len(responseType) - 2)]
           ELSE schema.ref # <<"ApiResponse">> /\ schema.items = Absent

\* C23: the description stored for a Route with required roles is the Route's
\* description followed by the role note listing the roles in order, and is
\* the Route's description when it has no role; requiresAuth plays no part.
C23_RoleNote ==
  Generated =>
    \A n \in 1..Len(allRoutes) :
      LastOfKey(allRoutes, n) =>
        OperationAt(openapiSpec, KeyOf(allRoutes[n])).description =
          IF allRoutes[n].requiredRoles # <<>>
          THEN allRoutes[n].description \o <<"\n", "\n", "zh-required-roles", " ">> \o
               JoinSep(allRoutes[n].requiredRoles, <<",", " ">>)
          ELSE allRoutes[n].description

(***************************************************************************)
(* main run over one route file made of a documentation block and the      *)
(* lines after it.                                                         *)
(***************************************************************************)
MaxDocLines == 3

\*  *   @param {number} slug zh-param zh-must zh-optional
LParamMust == <<" ", "*", " ", " ", " ", "@", "param", " ", "{", "number", "}", " ", "slug", " ",
  "zh-param", "zh-must", "zh-optional">>

\*  *   @param page zh-query
LParamNoType == <<" ", "*", " ", " ", " ", "@", "param", " ", "page", " ", "zh-query">>

DocLineCatalog == {LText, LStar, LParamStd, LParamPage, LParamMust, LParamNoType}

\* what follows the block
DocTails ==
  {<<RAll, LBlank>>, <<LWidget, RAll>>, <<LBlank, RById>>, <<RAll, LOpen, RById>>,
   <<LOpen, LClose, LBlank, RAll>>}

DocFiles ==
  {<<LOpen>> \o body \o <<LClose>> \o tail :
     body \in SeqsUpTo(DocLineCatalog, MaxDocLines), tail \in DocTails}

InitDoc ==
  /\ fsys \in {[f \in 1..4 |-> IF f = 4 THEN File(ls) ELSE Missing] : ls \in DocFiles}
  /\ outputPath = DefaultOutputPath
  /\ pc = "parseAllRoutes"
  /\ fileIdx = 1
  /\ allRoutes = <<>>
  /\ lines = <<>>
  /\ prefix = <<>>
  /\ tags = <<>>
  /\ i = 1
  /\ lineNumber = 0
  /\ currentComment = <<>>
  /\ routes = <<>>
  /\ openapiSpec = NoDocument
  /\ written = NoDocument
  /\ warnings = {}
  /\ exitCode = -1
  /\ caught = NoError
  /\ commentAt = 0
  /\ src = <<>>
  /\ allSrc = <<>>

SpecDoc == InitDoc /\ [][Next]_vars

(***************************************************************************)
(* parseRouteFile called on one route file.                                *)
(***************************************************************************)
ScanFiles == DocFiles \cup SeqsUpTo(LineCatalog, MaxDocLines)

InitScan ==
  /\ fsys \in {[f \in 1..4 |-> IF f = 4 THEN File(ls) ELSE Missing] : ls \in ScanFiles}
  /\ outputPath = DefaultOutputPath
  /\ pc = "parseRouteFile"
  /\ fileIdx = 4
  /\ allRoutes = <<>>
  /\ lines = fsys[4].lines
  /\ prefix = extractRoutePrefix(Content(fsys[4].lines))
  /\ tags = extractTagsFromFileName(routeFiles[4])
  /\ i = 1
  /\ lineNumber = 0
  /\ currentComment = <<>>
  /\ routes = <<>>
  /\ openapiSpec = NoDocument
  /\ written = NoDocument
  /\ warnings = {}
  /\ exitCode = -1
  /\ caught = NoError
  /\ commentAt = 0
  /\ src = <<>>
  /\ allSrc = <<>>

NextScan == ScanCommentBlock \/ ScanRouteLine \/ ScanOtherLine \/ FinishRouteFile

SpecScan == InitScan /\ [][NextScan]_vars

\* the @param tag of a comment line, as the parameter pattern reads it
TagOf(line) ==
  LET at == {k \in 1..Len(Trim(line)) : ParamAt(Trim(line), k).ok}
  IN IF at = {} THEN [ok |-> FALSE] ELSE ParamAt(Trim(line), MinOf(at))

QueryHint(tag) ==
  \/ Includes(tag.name, <<"query">>)
  \/ Includes(tag.desc, <<"zh-query">>)
  \/ Includes(tag.desc, <<"zh-param">>)

PathHint(tag) == Includes(tag.name, <<"path">>) \/ Includes(tag.desc, <<"zh-path">>)

RECURSIVE TaggedParams(_, _)
\* (type, name, text) of the well-formed @param lines of a comment that carry
\* the query hint (query = TRUE) or the path hint alone, in line order
TaggedParams(comment, query) ==
  IF comment = <<>> THEN <<>>
  ELSE LET tag == TagOf(comment[Len(comment)])
           before == TaggedParams(SubSeq(comment, 1, Len(comment) - 1), query)
       IN IF tag.ok /\ (IF query THEN QueryHint(tag) ELSE PathHint(tag) /\ ~QueryHint(tag))
          THEN Append(before, [type |-> tag.type, name |-> tag.name, description |-> tag.desc])
          ELSE before

\* the (type, name, text) of each entry of a parameter list
Triples(params) ==
  [n \in 1..Len(params) |->
     [type |-> params[n].type, name |-> params[n].name, description |-> params[n].description]]

\* C24: the queryParams and pathParams of a Route are, in line order, the
\* well-formed @param lines of its comment that carry the query hint,
\* respectively the path hint, each with its type, name and text; a
\* malformed line gives no entry and takes none away.
C24_TaggedLinesParsed ==
  \A n \in 1..Len(Emitted) :
    /\ Triples(Emitted[n].queryParams) = TaggedParams(Emitted[n].rawComment, TRUE)
    /\ Triples(Emitted[n].pathParams) = TaggedParams(Emitted[n].rawComment, FALSE)

\* C25 as stated: a query parameter is optional exactly when its text
\* contains the optional marker, whatever else the text contains.
C25_RequiredIffNoOptional ==
  \A n \in 1..Len(Emitted) : \A k \in 1..Len(Emitted[n].queryParams) :
    Emitted[n].queryParams[k].required
      <=> ~Includes(Emitted[n].queryParams[k].description, <<"zh-optional">>)

\* C25: a query parameter is optional exactly when its text contains the
\* optional marker and neither of the two mandatory markers; with a mandatory
\* marker in the text it is required, even next to the optional marker.
C25_MandatoryMarkerWins ==
  \A n \in 1..Len(Emitted) : \A k \in 1..Len(Emitted[n].queryParams) :
    ~Emitted[n].queryParams[k].required
      <=> /\ Includes(Emitted[n].queryParams[k].description, <<"zh-optional">>)
          /\ ~Includes(Emitted[n].queryParams[k].description, <<"zh-must">>)
          /\ ~Includes(Emitted[n].queryParams[k].description, <<"zh-needed">>)

\* one Route has a required parameter whose text holds both markers and an
\* optional parameter whose text holds the optional marker only
C25_Witness ==
  \E n \in 1..Len(Emitted) : \E k, l \in 1..Len(Emitted[n].queryParams) :
    /\ Emitted[n].queryParams[k].required
    /\ Includes(Emitted[n].queryParams[k].description, <<"zh-optional">>)
    /\ Includes(Emitted[n].queryParams[k].description, <<"zh-must">>)
    /\ ~Emitted[n].queryParams[l].required
    /\ ~Includes(Emitted[n].queryParams[l].description, <<"zh-must">>)

\* a narrative line of a comment: "* " and then text without a tag
Narrative(line) == StartsWith(Trim(line), <<"*", " ">>) /\ ~Includes(Trim(line), <<"@">>)

\* the texts of the first contiguous run of narrative lines of a comment
FirstRun(comment) ==
  LET at == {k \in 1..Len(comment) : Narrative(comment[k])}
  IN IF at = {} THEN <<>>
     ELSE LET last == CHOOSE b \in at :
                        /\ \A k \in MinOf(at)..b : k \in at
                        /\ b + 1 \notin at
          IN [k \in 1..(last - MinOf(at) + 1) |-> Drop(Trim(comment[MinOf(at) + k - 1]), 2)]

\* C26: the description of a Route is the first contiguous run of narrative
\* lines of its comment and its summary the first line of that run (the
\* placeholders when there is none); narrative lines after a blank comment
\* line or after a tag line are no part of the description.
C26_FirstRunOnly ==
  \A n \in 1..Len(Emitted) :
    /\ Emitted[n].description =
         IF FirstRun(Emitted[n].rawComment) = <<>> THEN <<"zh-no-description">>
         ELSE JoinNL(FirstRun(Emitted[n].rawComment))
    /\ Emitted[n].summary =
         IF FirstRun(Emitted[n].rawComment) = <<>> THEN <<"zh-no-summary">>
         ELSE FirstRun(Emitted[n].rawComment)[1]

\* the scan stands at the start of a block and no line from there to the end
\* of the file contains the closing marker
AtUnterminatedBlock ==
  /\ pc = "parseRouteFile"
  /\ i <= Len(lines)
  /\ IsBlockStart(Trim(lines[i]))
  /\ \A j \in i..Len(lines) : ~Includes(Trim(lines[j]), <<"*/">>)

\* C27: the line scan of a route file comes to its end: each iteration moves
\* the line index forward and never further than two past the last line, so
\* a file of n lines is scanned in at most n + 1 iterations; the scan is left
\* only past the last line and without a failure; and an unterminated block
\* takes every remaining line into the pending comment, ends the scan and
\* adds no Route.
C27_ScanTerminates ==
  [][pc = "parseRouteFile" =>
       /\ i <= Len(lines) + 2
       /\ pc' = "parseRouteFile" => (i <= Len(lines) /\ i' > i /\ i' <= Len(lines) + 2)
       /\ pc' # "parseRouteFile" =>
            (i > Len(lines) /\ pc' = "parseAllRoutes" /\ caught' = NoError)
       /\ AtUnterminatedBlock =>
            /\ pc' = "parseRouteFile"
            /\ i' > Len(lines)
            /\ currentComment' = <<Trim(lines[i])>> \o SubSeq(lines, i + 1, Len(lines))
            /\ routes' = routes]_vars

\* the scan has reached the end of a file through an unterminated block that
\* holds a route registration
C27_Witness ==
  /\ pc = "parseRouteFile"
  /\ i > Len(lines)
  /\ commentAt # 0
  /\ \A j \in commentAt..Len(lines) : ~Includes(Trim(lines[j]), <<"*/">>)
  /\ \E j \in (commentAt + 1)..Len(lines) : IsRegistration(Trim(lines[j]))
  /\ currentComment = <<Trim(lines[commentAt])>> \o SubSeq(lines, commentAt + 1, Len(lines))
  /\ \A n \in 1..Len(src) : src[n].line < commentAt

\* C28: main runs parse, synthesize, write, validate in this order: the
\* write step is entered only from the end of parsing and with the
\* synthesized document; validation is entered only by a write that
\* returned, which needs a supported extension and leaves the document in
\* the file; the run ends in success only from a validation that passed; and
\* a write that fails, as it must on an unsupported extension, ends the run
\* with the failure outcome, nothing validated.
C28_StepOrder ==
  [][/\ (pc' = "writeOutput") =>
          (pc = "parseAllRoutes" /\ fileIdx > Len(routeFiles) /\ openapiSpec' # NoDocument)
     /\ (pc' = "validateOutput") =>
          /\ pc = "writeOutput"
          /\ SupportedFormat(outputPath)
          /\ openapiSpec # NoDocument
          /\ written' = openapiSpec
     /\ (pc' = "done") =>
          /\ pc = "validateOutput"
          /\ written.openapi # "" /\ written.info.title # ""
          /\ exitCode' = 0
          /\ caught' = NoError
     /\ (pc = "writeOutput" /\ ~SupportedFormat(outputPath)) => caught'.phase = "write"
     /\ (caught'.phase = "write") =>
          /\ pc = "writeOutput"
          /\ pc' = "exit"
          /\ exitCode' = 1
          /\ written' = NoDocument
     /\ pc \notin {"done", "exit"}]_vars

\* the run was aborted by the write step on an unsupported extension
C28_Witness ==
  /\ pc = "exit"
  /\ exitCode = 1
  /\ caught.phase = "write"
  /\ ~SupportedFormat(outputPath)
  /\ openapiSpec # NoDocument
  /\ written = NoDocument

\* C29: the pending comment is emptied only by a step that adds a Route: a
\* line that is tried as a registration and gives no Route leaves it as it
\* was.
C29_ClearedOnlyOnRoute ==
  [][(/\ pc = "parseRouteFile"
      /\ pc' = "parseRouteFile"
      /\ currentComment # <<>>
      /\ currentComment' = <<>>) => Len(routes') = Len(routes) + 1]_vars

RECURSIVE LoopHeads(_, _)
\* the lines at which an iteration of the scan of ls begins, from line k on
LoopHeads(ls, k) ==
  IF k > Len(ls) THEN {}
  ELSE {k} \cup LoopHeads(ls, IF IsBlockStart(Trim(ls[k])) THEN BlockEnd(ls, k + 1) + 1 ELSE k + 1)

\* the last block that an iteration before line k began to read, or 0
LastBlockBefore(ls, k) ==
  LET at == {b \in LoopHeads(ls, 1) : b < k /\ IsBlockStart(Trim(ls[b]))}
  IN IF at = {} THEN 0 ELSE CHOOSE b \in at : \A c \in at : c <= b

\* the last route-like line that an iteration before line k looked at, or 0
LastRouteLikeBefore(ls, k) ==
  LET at == {r \in LoopHeads(ls, 1) :
               r < k /\ ~IsBlockStart(Trim(ls[r])) /\ IsRouteLike(Trim(ls[r]))}
  IN IF at = {} THEN 0 ELSE CHOOSE r \in at : \A c \in at : c <= r

\* the text of the most recently read block not yet followed by a
\* route-like line when the scan of ls stands at line k, empty if there is none
PendingAt(ls, k) ==
  IF LastBlockBefore(ls, k) > LastRouteLikeBefore(ls, k)
  THEN <<Trim(ls[LastBlockBefore(ls, k)])>>
         \o SubSeq(ls, LastBlockBefore(ls, k) + 1,
                   MinOf({BlockEnd(ls, LastBlockBefore(ls, k) + 1), Len(ls)}))
  ELSE <<>>

====
